---- MODULE Spec2Model ----
(***************************************************************************)
(* Model of autpy3270: the page-object helpers of src/src/base_page.py     *)
(* (class Utils and class BasePage) driving a py3270 Emulator.             *)
(*                                                                         *)
(* The emulator is modelled as a character grid of ScreenRows x ScreenCols *)
(* cells with a cursor.  Every call the helpers make on the emulator, and  *)
(* every time.sleep, is appended to `log` in the order the code makes it,  *)
(* tagged with the source line of the call.  Strings are sequences of      *)
(* one-character strings.                                                  *)
(***************************************************************************)
EXTENDS Integers, Sequences, FiniteSets, TLC

VARIABLES
    grid,          \* emulator screen: grid[row][col], 1-based
    cursor,        \* emulator cursor <<row, col>>, 1-based
    has_send_pf2,  \* whether the Emulator object has an attribute send_pf2
    link,          \* "up", or "down" once the emulator has been terminated
    screen_rows,   \* Utils.config.SCREEN_ROWS
    factory,       \* an EmulatorFactory, the class attribute _instance and
                   \* the emulators created so far
    args,          \* the arguments the caller passes: [field, offset, value]
    op,            \* the last operation called: [name, key, wait, length, rows, outcome]
    result,        \* its outcome: [kind, exc, err, cause, val, snap]
    log            \* the emulator calls and sleeps it made, in order

vars == <<grid, cursor, has_send_pf2, link, screen_rows, factory, args, op, result, log>>

---------------------------------------------------------------------------
(* Bounds of the model.                                                    *)

\* TerminalConfig.SCREEN_ROWS / SCREEN_COLS, scaled down (Utils.configure
\* accepts any value).
ScreenRows == 2
ScreenCols == 3
\* offsets passed by callers range over -MaxOffset..MaxOffset
MaxOffset == 1
\* the screen a session starts from holds at most MaxInk non-blank cells
MaxInk == 2

Chars == {"a", " "}
Whitespace == {" "}
Offsets == (0 - MaxOffset)..MaxOffset

Lines == [1..ScreenCols -> Chars]
Ink(g) == Cardinality({rc \in (1..ScreenRows) \X (1..ScreenCols) : g[rc[1]][rc[2]] # " "})
Grids == {g \in [1..ScreenRows -> Lines] : Ink(g) <= MaxInk}
BlankGrid == [r \in 1..ScreenRows |-> [c \in 1..ScreenCols |-> " "]]

Labels == { <<>>, <<"a">>, <<"a", "a">>, <<"a", " ">> }
Values == { <<"a">>, <<" ">>, <<"a", " ">>, <<" ", "a">> }
Lengths == 0..2

---------------------------------------------------------------------------
(* Python string primitives used by the helpers.                           *)

\* field occurs in line at 0-based index i
MatchesAt(line, field, i) ==
    /\ i + Len(field) <= Len(line)
    /\ SubSeq(line, i + 1, i + Len(field)) = field

\* str.rfind in place of str.find: the highest index
FindLast(line, field) ==
    IF \E i \in 0..Len(line) : MatchesAt(line, field, i)
    THEN CHOOSE i \in 0..Len(line) :
            /\ MatchesAt(line, field, i)
            /\ \A j \in (i + 1)..Len(line) : ~MatchesAt(line, field, j)
    ELSE -1

\* str.find: lowest 0-based index of field in line, or -1
Find(line, field) ==
    IF \E i \in 0..Len(line) : MatchesAt(line, field, i)
    THEN CHOOSE i \in 0..Len(line) :
            /\ MatchesAt(line, field, i)
            /\ \A j \in 0..(i - 1) : ~MatchesAt(line, field, j)
    ELSE -1

RECURSIVE LStrip(_)
LStrip(s) == IF s # <<>> /\ Head(s) \in Whitespace THEN LStrip(Tail(s)) ELSE s

RECURSIVE RStrip(_)
RStrip(s) ==
    IF s # <<>> /\ s[Len(s)] \in Whitespace
    THEN RStrip(SubSeq(s, 1, Len(s) - 1))
    ELSE s

\* str.strip
Strip(s) == RStrip(LStrip(s))

---------------------------------------------------------------------------
(* The emulator (py3270.Emulator), as far as the helpers use it.           *)

\* one entry of the log: the call, its arguments, and the source line `at`
Call(c, row, col, len, text, cmd, at) ==
    [call |-> c, row |-> row, col |-> col, len |-> len,
     text |-> text, cmd |-> cmd, at |-> at]

ValidPos(row, col) == row \in 1..ScreenRows /\ col \in 1..ScreenCols

\* string_get(row, col, length) answers when the region lies within the row;
\* otherwise the emulator raises
string_get_ok(row, col, length) ==
    ValidPos(row, col) /\ length >= 0 /\ col + length - 1 <= ScreenCols

string_get(g, row, col, length) == SubSeq(g[row], col, col + length - 1)

Cells == ScreenRows * ScreenCols
Lin(row, col) == (row - 1) * ScreenCols + (col - 1)
PosOf(p) == << (p \div ScreenCols) + 1, (p % ScreenCols) + 1 >>

\* send_string(text): the characters overwrite the buffer from the cursor on,
\* wrapping at the end of a row and of the screen
send_string(g, cur, text) ==
    [r \in 1..ScreenRows |->
        [c \in 1..ScreenCols |->
            LET k == (Lin(r, c) - Lin(cur[1], cur[2])) % Cells
            IN  IF k < Len(text) THEN text[k + 1] ELSE g[r][c]]]

cursor_after(cur, text) == PosOf((Lin(cur[1], cur[2]) + Len(text)) % Cells)

---------------------------------------------------------------------------
(* class Utils                                                             *)

\* get_screen homing the cursor before it reads the rows
Utils_get_screen_home(g, at) ==
    [val |-> [r \in 1..screen_rows |-> string_get(g, r, 1, ScreenCols)],
     log |-> <<Call("move_to", 1, 1, 0, <<>>, "", at)>> \o
             [r \in 1..screen_rows |->
                 Call("string_get", r, 1, ScreenCols, <<>>, "", at)]]

\* Utils.get_screen: reads rows 1..SCREEN_ROWS, columns 1..SCREEN_COLS
Utils_get_screen(g, at) ==
    [val |-> [r \in 1..screen_rows |-> string_get(g, r, 1, ScreenCols)],
     log |-> [r \in 1..screen_rows |->
                 Call("string_get", r, 1, ScreenCols, <<>>, "", at)]]

\* find_col without its branch for negative offsets
find_col_unsigned(idx, field, offset) == idx + Len(field) + offset

\* the column find_text_position computes from the match index
find_col(idx, field, offset) ==
    IF offset >= 0
    THEN idx + Len(field) + offset
    ELSE idx - (IF offset < 0 THEN 0 - offset ELSE offset) + 1

\* find_text_position_from looping over range(1, rows): the last row is not read
RECURSIVE find_text_position_short(_, _, _, _)
find_text_position_short(g, field, offset, row) ==
    IF row >= screen_rows
    THEN [found |-> FALSE, row |-> 0, col |-> 0, log |-> <<>>]
    ELSE LET rd   == Call("string_get", row, 1, ScreenCols, <<>>, "", 267)
             line == string_get(g, row, 1, ScreenCols)
             idx  == Find(line, field)
         IN  IF idx # -1
             THEN [found |-> TRUE, row |-> row,
                   col |-> find_col(idx, field, offset), log |-> <<rd>>]
             ELSE LET rest == find_text_position_short(g, field, offset, row + 1)
                  IN  [rest EXCEPT !.log = <<rd>> \o @]

\* Utils.find_text_position, rows row..SCREEN_ROWS of the loop
RECURSIVE find_text_position_from(_, _, _, _)
find_text_position_from(g, field, offset, row) ==
    IF row > screen_rows
    THEN [found |-> FALSE, row |-> 0, col |-> 0, log |-> <<>>]
    ELSE LET rd   == Call("string_get", row, 1, ScreenCols, <<>>, "", 267)
             line == string_get(g, row, 1, ScreenCols)
             idx  == Find(line, field)
         IN  IF idx # -1
             THEN [found |-> TRUE, row |-> row,
                   col |-> find_col(idx, field, offset), log |-> <<rd>>]
             ELSE LET rest == find_text_position_from(g, field, offset, row + 1)
                  IN  [rest EXCEPT !.log = <<rd>> \o @]

find_text_position(g, field, offset) ==
    find_text_position_from(g, field, offset, 1)

\* Utils.find_and_send_text, rows row..SCREEN_ROWS of the loop: on the first
\* row holding field, move_to(row, idx + len(field) + offset) and send_string
RECURSIVE find_and_send_text_from(_, _, _, _, _, _)
find_and_send_text_from(g, cur, field, value, offset, row) ==
    IF row > screen_rows
    THEN [g |-> g, cur |-> cur, exc |-> "", val |-> FALSE, log |-> <<>>]
    ELSE LET rd   == Call("string_get", row, 1, ScreenCols, <<>>, "", 252)
             line == string_get(g, row, 1, ScreenCols)
             idx  == Find(line, field)
             col  == idx + Len(field) + offset
             mv   == Call("move_to", row, col, 0, <<>>, "", 257)
             ss   == Call("send_string", 0, 0, 0, value, "", 258)
         IN  IF idx # -1
             THEN IF ValidPos(row, col)
                  THEN [g |-> send_string(g, <<row, col>>, value),
                        cur |-> cursor_after(<<row, col>>, value),
                        exc |-> "", val |-> TRUE, log |-> <<rd, mv, ss>>]
                  ELSE [g |-> g, cur |-> cur, exc |-> "CommandError",
                        val |-> FALSE, log |-> <<rd, mv>>]
             ELSE LET rest == find_and_send_text_from(g, cur, field, value,
                                                      offset, row + 1)
                  IN  [rest EXCEPT !.log = <<rd>> \o @]

\* find_and_send_text leaving the cursor at the end of the screen when its scan
\* of the rows found nothing
find_and_send_text_scan(g, cur, field, value, offset) ==
    LET r == find_and_send_text_from(g, cur, field, value, offset, 1)
    IN  IF r.val THEN r ELSE [r EXCEPT !.cur = <<ScreenRows, ScreenCols>>]

find_and_send_text(g, cur, field, value, offset) ==
    find_and_send_text_from(g, cur, field, value, offset, 1)

\* Utils.get_value_from_field: find_text_position, then
\* string_get(row, col, length).strip(); None when the field is not found
get_value_from_field(g, field, offset, length) ==
    LET p  == find_text_position(g, field, offset)
        rd == Call("string_get", p.row, p.col, length, <<>>, "", 292)
    IN  IF ~p.found
        THEN [exc |-> "", none |-> TRUE, str |-> <<>>, log |-> p.log]
        ELSE IF string_get_ok(p.row, p.col, length)
             THEN [exc |-> "", none |-> FALSE,
                   str |-> Strip(string_get(g, p.row, p.col, length)),
                   log |-> p.log \o <<rd>>]
             ELSE [exc |-> "CommandError", none |-> TRUE, str |-> <<>>,
                   log |-> p.log \o <<rd>>]

---------------------------------------------------------------------------
(* Utils.send_key and Utils.send_text                                      *)

\* enum Key (src/src/enums.py)
Key ==
    { "ENTER", "TAB", "CLEAR", "RESET", "BACKSPACE", "DELETE", "NEWLINE",
      "PF1", "PF2", "PF3", "PF4", "PF5", "PF6", "PF7", "PF8", "PF9", "PF10",
      "PF11", "PF12", "PF13", "PF14", "PF15", "PF16", "PF17", "PF18", "PF19",
      "PF20", "PF21", "PF22", "PF23", "PF24", "PA1", "PA2", "PA3" }

\* values a caller can pass that are no member of Key: a plain string (it has
\* no attribute `name`) and a member of some other Enum (it has one)
NonKeys == { "str", "OtherEnum.member" }
HasName(key) == key # "str"

\* The dict display key_methods = {...} of Utils.send_key, entry by entry in
\* source order.  how = "attr": the value is a bound method of the emulator
\* (em.send_enter), which issues cmd when it is called.  how = "call": the
\* value is the result of calling the emulator while the dict is built
\* (em.exec_command(b'Tab'), em.send_pf('1')): the call issues cmd then, and
\* its result (a Command object, or None) cannot be called.
KeyTable ==
    << [key |-> "ENTER", how |-> "attr", attr |-> "send_enter", cmd |-> "Enter", at |-> 308],
       [key |-> "TAB", how |-> "call", attr |-> "exec_command", cmd |-> "Tab", at |-> 309],
       [key |-> "CLEAR", how |-> "call", attr |-> "exec_command", cmd |-> "Clear", at |-> 310],
       [key |-> "RESET", how |-> "call", attr |-> "exec_command", cmd |-> "Reset", at |-> 311],
       [key |-> "BACKSPACE", how |-> "call", attr |-> "exec_command", cmd |-> "Backspace", at |-> 312],
       [key |-> "DELETE", how |-> "call", attr |-> "exec_command", cmd |-> "Delete", at |-> 313],
       [key |-> "NEWLINE", how |-> "call", attr |-> "exec_command", cmd |-> "Newline", at |-> 314],
       [key |-> "PF1", how |-> "call", attr |-> "send_pf", cmd |-> "PF(1)", at |-> 316],
       [key |-> "PF2", how |-> "call", attr |-> "send_pf", cmd |-> "PF(2)", at |-> 317],
       [key |-> "PF3", how |-> "attr", attr |-> "send_pf2", cmd |-> "PF(2)", at |-> 318],
       [key |-> "PF4", how |-> "attr", attr |-> "send_pf4", cmd |-> "PF(4)", at |-> 319],
       [key |-> "PF5", how |-> "attr", attr |-> "send_pf5", cmd |-> "PF(5)", at |-> 320],
       [key |-> "PF6", how |-> "attr", attr |-> "send_pf6", cmd |-> "PF(6)", at |-> 321],
       [key |-> "PF7", how |-> "attr", attr |-> "send_pf7", cmd |-> "PF(7)", at |-> 322],
       [key |-> "PF8", how |-> "attr", attr |-> "send_pf8", cmd |-> "PF(8)", at |-> 323],
       [key |-> "PF9", how |-> "call", attr |-> "send_pf", cmd |-> "PF(9)", at |-> 324],
       [key |-> "PF10", how |-> "call", attr |-> "send_pf", cmd |-> "PF(10)", at |-> 325],
       [key |-> "PF11", how |-> "call", attr |-> "send_pf", cmd |-> "PF(11)", at |-> 326],
       [key |-> "PF12", how |-> "call", attr |-> "send_pf", cmd |-> "PF(12)", at |-> 327],
       [key |-> "PF13", how |-> "call", attr |-> "send_pf", cmd |-> "PF(13)", at |-> 328],
       [key |-> "PF14", how |-> "call", attr |-> "send_pf", cmd |-> "PF(14)", at |-> 329],
       [key |-> "PF15", how |-> "call", attr |-> "send_pf", cmd |-> "PF(15)", at |-> 330],
       [key |-> "PF16", how |-> "call", attr |-> "send_pf", cmd |-> "PF(16)", at |-> 331],
       [key |-> "PF17", how |-> "call", attr |-> "send_pf", cmd |-> "PF(17)", at |-> 332],
       [key |-> "PF18", how |-> "call", attr |-> "send_pf", cmd |-> "PF(18)", at |-> 333],
       [key |-> "PF19", how |-> "call", attr |-> "send_pf", cmd |-> "PF(19)", at |-> 334],
       [key |-> "PF20", how |-> "call", attr |-> "send_pf", cmd |-> "PF(20)", at |-> 335],
       [key |-> "PF21", how |-> "call", attr |-> "send_pf", cmd |-> "PF(21)", at |-> 336],
       [key |-> "PF22", how |-> "call", attr |-> "send_pf", cmd |-> "PF(22)", at |-> 337],
       [key |-> "PF23", how |-> "call", attr |-> "send_pf", cmd |-> "PF(23)", at |-> 338],
       [key |-> "PF24", how |-> "call", attr |-> "send_pf", cmd |-> "PF(24)", at |-> 339],
       [key |-> "PA1", how |-> "call", attr |-> "exec_command", cmd |-> "PA1", at |-> 341],
       [key |-> "PA2", how |-> "call", attr |-> "exec_command", cmd |-> "PA2", at |-> 342],
       [key |-> "PA3", how |-> "call", attr |-> "exec_command", cmd |-> "PA3", at |-> 343] >>

TableKeys == { KeyTable[i].key : i \in 1..Len(KeyTable) }
EntryOf(key) == KeyTable[CHOOSE i \in 1..Len(KeyTable) : KeyTable[i].key = key]

\* evaluating entries i.. of the dict display: the emulator calls made, and
\* the AttributeError of an attribute the emulator does not have
RECURSIVE build_key_methods(_, _)
build_key_methods(i, pf2) ==
    IF i > Len(KeyTable)
    THEN [exc |-> "", log |-> <<>>]
    ELSE LET e == KeyTable[i]
         IN  IF e.how = "attr"
             THEN IF e.attr = "send_pf2" /\ ~pf2
                  THEN [exc |-> "AttributeError", log |-> <<>>]
                  ELSE build_key_methods(i + 1, pf2)
             ELSE LET rest == build_key_methods(i + 1, pf2)
                  IN  [rest EXCEPT
                         !.log = <<Call(e.attr, 0, 0, 0, <<>>, e.cmd, e.at)>> \o @]

\* Utils.send_key(em, key, wait)
send_key(key, wait, pf2) ==
    LET b == build_key_methods(1, pf2)
    IN  IF b.exc # ""
        THEN [exc |-> b.exc, log |-> b.log]
        ELSE IF key \in TableKeys
             THEN LET e == EntryOf(key)
                  IN  IF e.how = "attr"
                      THEN [exc |-> "",
                            log |-> b.log
                                    \o <<Call(e.attr, 0, 0, 0, <<>>, e.cmd, 348)>>
                                    \o (IF wait
                                        THEN << Call("sleep", 0, 0, 0, <<>>, "", 350),
                                                Call("wait_for_field", 0, 0, 0, <<>>, "", 351) >>
                                        ELSE <<>>)]
                      ELSE [exc |-> "TypeError", log |-> b.log]
             ELSE [exc |-> "ValueError", log |-> b.log]

\* Utils.send_text(emulator, value), characters i.. of the loop
RECURSIVE send_text_from(_, _, _, _)
send_text_from(g, cur, value, i) ==
    IF i > Len(value)
    THEN [g |-> g, cur |-> cur,
          log |-> <<Call("wait_for_field", 0, 0, 0, <<>>, "", 360)>>]
    ELSE LET ch   == <<value[i]>>
             rest == send_text_from(send_string(g, cur, ch),
                                    cursor_after(cur, ch), value, i + 1)
         IN  [rest EXCEPT
                !.log = << Call("send_string", 0, 0, 0, ch, "", 358),
                           Call("sleep", 0, 0, 0, <<>>, "", 359) >> \o @]

\* send_text sending the whole value with one send_string
send_text_whole(g, cur, value) ==
    [g |-> send_string(g, cur, value), cur |-> cursor_after(cur, value),
     log |-> << Call("send_string", 0, 0, 0, value, "", 358),
                Call("sleep", 0, 0, 0, <<>>, "", 359),
                Call("wait_for_field", 0, 0, 0, <<>>, "", 360) >>]

send_text(g, cur, value) == send_text_from(g, cur, value, 1)

---------------------------------------------------------------------------
(* Operations.                                                             *)

NoOp == [name |-> "", key |-> "", wait |-> FALSE, length |-> 0, rows |-> 0, outcome |-> ""]
NoResult == [kind |-> "none", exc |-> "", err |-> "", cause |-> "", val |-> <<>>, snap |-> <<>>]

Return(v) == [NoResult EXCEPT !.kind = "return", !.val = v]
Raise(e) == [NoResult EXCEPT !.kind = "raise", !.exc = e]

\* py3270: once Emulator.terminate() was called every command of the emulator
\* object raises TerminatedError; of the calls l a helper would make, the
\* first is attempted and raises
EmuDown(l) == link = "down" /\ l # <<>>
Attempted(l) == IF EmuDown(l) THEN <<l[1]>> ELSE l

\* EmulatorFactory.__init__ sets the attribute `emulator`; the attribute the
\* methods read and write, `emulador`, does not exist until create_emulator
\* assigns it.  emulador and instance are Unset (no such attribute), None or
\* the number of an emulator; emus[k] is the state of the k-th emulator made
Unset == -1
None == 0
NewFactory == [emulador |-> Unset, instance |-> None, emus |-> <<>>]

Init ==
    /\ grid \in Grids
    /\ cursor = <<1, 1>>
    /\ has_send_pf2 = TRUE
    /\ link = "up"
    /\ screen_rows = ScreenRows
    /\ factory = NewFactory
    /\ args \in [field : Labels, offset : Offsets, value : Values]
    /\ op = NoOp
    /\ result = NoResult
    /\ log = <<>>

\* a caller invokes Utils.find_text_position(emulator, field, offset)
FindTextPosition ==
    LET r == find_text_position(grid, args.field, args.offset)
    IN  /\ op' = [NoOp EXCEPT !.name = "find_text_position"]
        /\ result' = IF EmuDown(r.log)
                     THEN Raise("TerminatedError")
                     ELSE Return([found |-> r.found, row |-> r.row, col |-> r.col])
        /\ log' = Attempted(r.log)
        /\ UNCHANGED <<grid, cursor, has_send_pf2, link, screen_rows, args, factory>>

\* the lines from the i-th on, one after the other with nothing between them
RECURSIVE ConcatFrom(_, _)
ConcatFrom(lines, i) ==
    IF i > Len(lines) THEN <<>>
    ELSE lines[i] \o ConcatFrom(lines, i + 1)

\* '\n'.join(lines), from the i-th line on
RECURSIVE JoinFrom(_, _)
JoinFrom(lines, i) ==
    IF i > Len(lines) THEN <<>>
    ELSE IF i = Len(lines) THEN lines[i]
    ELSE lines[i] \o <<"\n">> \o JoinFrom(lines, i + 1)

Join(lines) == JoinFrom(lines, 1)

\* the text ScreenError puts in the place of the screen it could not read
Placeholder == <<"Nao foi possivel capturar o conteudo da tela: ">>

\* Constructing an error of the taxonomy.  The subclasses FieldNotFoundError,
\* InputError, KeyError and ScreenError first read the screen with
\* Utils.get_screen (source line `at`) for the message; only ScreenError
\* guards that read with try/except, in the others its exception leaves the
\* constructor.  TerminalError.__init__ then ends in pytest.fail(error_msg),
\* which raises pytest's Failed (a BaseException) out of the constructor.
\* cause is the exception whose str() goes into the message.
TerminalError(err, cause, g, at) ==
    LET sc == Utils_get_screen(g, at)
    IN  IF EmuDown(sc.log) /\ err # "ScreenError"
        THEN [res |-> Raise("TerminatedError"), log |-> Attempted(sc.log)]
        ELSE [res |-> [NoResult EXCEPT !.kind = "raise", !.exc = "Failed",
                          !.err = err, !.cause = cause,
                          !.snap = IF EmuDown(sc.log) THEN Placeholder
                                   ELSE Join(sc.val)],
              log |-> Attempted(sc.log)]

\* `raise first` inside the try block of a page operation whose handler is
\* `except Exception as e: if not isinstance(e, TerminalError): raise wrapper`:
\* Failed is no Exception and passes; an exception that left the constructor
\* of first is caught and wrapped
RaisedInTry(first, wrapper) ==
    IF first.res.exc = "Failed"
    THEN first
    ELSE [res |-> wrapper.res, log |-> first.log \o wrapper.log]

\* BasePage.input_text(field, value, offset)
input_text ==
    LET r0 == find_and_send_text(grid, cursor, args.field, args.value, args.offset)
        r  == IF EmuDown(r0.log)
              THEN [g |-> grid, cur |-> cursor, exc |-> "TerminatedError",
                    val |-> FALSE, log |-> Attempted(r0.log)]
              ELSE r0
        nf == RaisedInTry(TerminalError("FieldNotFoundError", "", r.g, 62),
                          TerminalError("InputError", "TerminatedError", r.g, 73))
        ie == TerminalError("InputError", r.exc, r.g, 73)
    IN  /\ op' = [NoOp EXCEPT !.name = "input_text"]
        /\ grid' = r.g
        /\ cursor' = r.cur
        /\ IF r.exc # ""
           THEN result' = ie.res /\ log' = r.log \o ie.log
           ELSE IF ~r.val
                THEN result' = nf.res /\ log' = r.log \o nf.log
                ELSE result' = Return(TRUE) /\ log' = r.log
        /\ UNCHANGED <<has_send_pf2, link, screen_rows, args, factory>>

\* BasePage.get_value(field, offset, length)
get_value ==
    \E length \in Lengths :
        LET r0 == get_value_from_field(grid, args.field, args.offset, length)
            r  == IF EmuDown(r0.log)
                  THEN [exc |-> "TerminatedError", none |-> FALSE, str |-> <<>>,
                        log |-> Attempted(r0.log)]
                  ELSE r0
            nf == RaisedInTry(TerminalError("FieldNotFoundError", "", grid, 62),
                              TerminalError("FieldNotFoundError", "TerminatedError", grid, 62))
            wr == TerminalError("FieldNotFoundError", r.exc, grid, 62)
        IN  /\ op' = [NoOp EXCEPT !.name = "get_value", !.length = length]
            /\ IF r.exc # ""
               THEN result' = wr.res /\ log' = r.log \o wr.log
               ELSE IF r.none
                    THEN result' = nf.res /\ log' = r.log \o nf.log
                    ELSE result' = Return(r.str) /\ log' = r.log
            /\ UNCHANGED <<grid, cursor, has_send_pf2, link, screen_rows, args, factory>>

\* BasePage.get_screen()
get_screen ==
    LET sc == Utils_get_screen(grid, 283)
        em == TerminalError("ScreenError", "", grid, 96)
        wr == TerminalError("ScreenError", "TerminatedError", grid, 96)
    IN  /\ op' = [NoOp EXCEPT !.name = "get_screen"]
        /\ IF EmuDown(sc.log)
           THEN result' = wr.res /\ log' = Attempted(sc.log) \o wr.log
           ELSE IF sc.val = <<>>
                THEN result' = em.res /\ log' = sc.log \o em.log
                ELSE result' = Return(sc.val) /\ log' = sc.log
        /\ UNCHANGED <<grid, cursor, has_send_pf2, link, screen_rows, args, factory>>

\* BasePage.print_screen()
print_screen ==
    LET sc == Utils_get_screen(grid, 283)
        em == TerminalError("ScreenError", "", grid, 96)
        wr == TerminalError("ScreenError", "TerminatedError", grid, 96)
    IN  /\ op' = [NoOp EXCEPT !.name = "print_screen"]
        /\ IF EmuDown(sc.log)
           THEN result' = wr.res /\ log' = Attempted(sc.log) \o wr.log
           ELSE IF sc.val = <<>>
                THEN result' = em.res /\ log' = sc.log \o em.log
                ELSE result' = Return("None") /\ log' = sc.log
        /\ UNCHANGED <<grid, cursor, has_send_pf2, link, screen_rows, args, factory>>

\* a caller invokes Utils.send_key(em, key, wait)
SendKey ==
    \E key \in Key \cup NonKeys, wait \in BOOLEAN :
        LET r == send_key(key, wait, has_send_pf2)
        IN  /\ op' = [NoOp EXCEPT !.name = "send_key", !.key = key, !.wait = wait]
            /\ result' = IF EmuDown(r.log) THEN Raise("TerminatedError")
                         ELSE IF r.exc # "" THEN Raise(r.exc) ELSE Return("None")
            /\ log' = Attempted(r.log)
            /\ UNCHANGED <<grid, cursor, has_send_pf2, link, screen_rows, args, factory>>

\* BasePage.input_key(key, wait)
input_key ==
    \E key \in Key \cup NonKeys, wait \in BOOLEAN :
        LET r0 == send_key(key, wait, has_send_pf2)
            r  == IF EmuDown(r0.log)
                  THEN [exc |-> "TerminatedError", log |-> Attempted(r0.log)]
                  ELSE r0
            ke == TerminalError("KeyError", r.exc, grid, 84)
        IN  /\ op' = [NoOp EXCEPT !.name = "input_key", !.key = key, !.wait = wait]
            /\ IF ~HasName(key)
               THEN result' = Raise("AttributeError") /\ log' = <<>>
               ELSE IF r.exc # ""
                    THEN result' = ke.res /\ log' = r.log \o ke.log
                    ELSE result' = Return("None") /\ log' = r.log
            /\ UNCHANGED <<grid, cursor, has_send_pf2, link, screen_rows, args, factory>>

\* a caller invokes Utils.send_text(emulator, value)
SendText ==
    LET r == send_text(grid, cursor, args.value)
    IN  /\ op' = [NoOp EXCEPT !.name = "send_text"]
        /\ grid' = IF EmuDown(r.log) THEN grid ELSE r.g
        /\ cursor' = IF EmuDown(r.log) THEN cursor ELSE r.cur
        /\ result' = IF EmuDown(r.log) THEN Raise("TerminatedError") ELSE Return("None")
        /\ log' = Attempted(r.log)
        /\ UNCHANGED <<has_send_pf2, link, screen_rows, args, factory>>

\* BasePage.input_string(value)
input_string ==
    LET r  == send_text(grid, cursor, args.value)
        ie == TerminalError("InputError", "TerminatedError", grid, 73)
    IN  /\ op' = [NoOp EXCEPT !.name = "input_string"]
        /\ grid' = IF EmuDown(r.log) THEN grid ELSE r.g
        /\ cursor' = IF EmuDown(r.log) THEN cursor ELSE r.cur
        /\ IF EmuDown(r.log)
           THEN result' = ie.res /\ log' = Attempted(r.log) \o ie.log
           ELSE result' = Return("None") /\ log' = r.log
        /\ UNCHANGED <<has_send_pf2, link, screen_rows, args, factory>>

\* the owner of the emulator calls Emulator.terminate() while a page object
\* still holds it
Terminate ==
    /\ link = "up"
    /\ link' = "down"
    /\ op' = [NoOp EXCEPT !.name = "terminate"]
    /\ result' = Return("None")
    /\ log' = <<>>
    /\ UNCHANGED <<grid, cursor, has_send_pf2, screen_rows, args, factory>>

\* Utils.configure(SCREEN_ROWS=rows)
ConfigRows == {0, ScreenRows}

configure ==
    \E rows \in ConfigRows :
        /\ screen_rows' = rows
        /\ op' = [NoOp EXCEPT !.name = "configure", !.rows = rows]
        /\ result' = Return("None")
        /\ log' = <<>>
        /\ UNCHANGED <<grid, cursor, has_send_pf2, link, args, factory>>

\* EmulatorError and its subclasses (emulator_factory.py) derive from
\* TerminalError and are made with a message only: no screen is read, and the
\* constructor ends in pytest.fail like every TerminalError
EmulatorError(cls, cause) ==
    [NoResult EXCEPT !.kind = "raise", !.exc = "Failed", !.err = cls, !.cause = cause]

\* the emulators one factory may make in a run
MaxEmulators == 3

\* what the environment lets happen in create_emulator: everything works, the
\* constructor of Emulator raises, connect raises, wait_for_field raises
CreateOutcomes == {"ok", "no_emulator", "no_connect", "no_field"}

\* EmulatorFactory.create_emulator(host, visible)
create_emulator ==
    \E outcome \in CreateOutcomes :
        LET k   == Len(factory.emus) + 1
            new == Call("Emulator", 0, 0, 0, <<>>, "", 108)
            con == Call("connect", 0, 0, 0, <<>>, "", 109)
            wff == Call("wait_for_field", 0, 0, 0, <<>>, "", 110)
        IN  /\ Len(factory.emus) < MaxEmulators
            /\ op' = [NoOp EXCEPT !.name = "create_emulator", !.outcome = outcome]
            /\ CASE outcome = "ok" ->
                      /\ factory' = [emulador |-> k, instance |-> k,
                                     emus |-> Append(factory.emus, "connected")]
                      /\ result' = Return("None")
                      /\ log' = <<new, con, wff>>
                 [] outcome = "no_emulator" ->
                      /\ factory' = [factory EXCEPT !.emulador = None]
                      /\ result' = EmulatorError("InitializationError", "Exception")
                      /\ log' = <<new>>
                 [] outcome = "no_connect" ->
                      /\ factory' = [factory EXCEPT !.emulador = None,
                                        !.emus = Append(@, "unconnected")]
                      /\ result' = EmulatorError("InitializationError", "Exception")
                      /\ log' = <<new, con>>
                 [] outcome = "no_field" ->
                      /\ factory' = [factory EXCEPT !.emulador = None,
                                        !.emus = Append(@, "connected")]
                      /\ result' = EmulatorError("InitializationError", "Exception")
                      /\ log' = <<new, con, wff>>
            /\ UNCHANGED <<grid, cursor, has_send_pf2, link, screen_rows, args>>

\* EmulatorFactory.terminate_emulator()
terminate_emulator ==
    /\ op' = [NoOp EXCEPT !.name = "terminate_emulator"]
    /\ IF factory.emulador = Unset
       THEN /\ factory' = factory
            /\ result' = EmulatorError("EmulatorError", "AttributeError")
            /\ log' = <<>>
       ELSE IF factory.emulador = None
            THEN /\ factory' = factory
                 /\ result' = Return("None")
                 /\ log' = <<>>
            ELSE /\ factory' = [emulador |-> None, instance |-> None,
                                emus |-> [factory.emus EXCEPT ![factory.emulador] = "terminated"]]
                 /\ result' = Return("None")
                 /\ log' = <<Call("terminate", 0, 0, 0, <<>>, "", 137)>>
    /\ UNCHANGED <<grid, cursor, has_send_pf2, link, screen_rows, args>>

\* EmulatorFactory.get_emulator()
get_emulator ==
    /\ op' = [NoOp EXCEPT !.name = "get_emulator"]
    /\ result' = IF factory.emulador = Unset
                 THEN EmulatorError("EmulatorError", "AttributeError")
                 ELSE IF factory.emulador = None
                      THEN EmulatorError("EmulatorError", "")
                      ELSE Return(factory.emulador)
    /\ log' = <<>>
    /\ UNCHANGED <<grid, cursor, has_send_pf2, link, screen_rows, args, factory>>

\* EmulatorFactory.is_connected()
is_connected ==
    /\ op' = [NoOp EXCEPT !.name = "is_connected"]
    /\ result' = IF factory.emulador = Unset
                 THEN EmulatorError("EmulatorError", "AttributeError")
                 ELSE Return(factory.emulador # None)
    /\ log' = <<>>
    /\ UNCHANGED <<grid, cursor, has_send_pf2, link, screen_rows, args, factory>>

\* EmulatorFactory.get_instance()
get_instance ==
    /\ op' = [NoOp EXCEPT !.name = "get_instance"]
    /\ result' = Return(factory.instance)
    /\ log' = <<>>
    /\ UNCHANGED <<grid, cursor, has_send_pf2, link, screen_rows, args, factory>>

Next ==
    \/ FindTextPosition
    \/ input_text
    \/ get_value
    \/ get_screen
    \/ print_screen

Spec == Init /\ [][Next]_vars

\* key dispatch, on a few screens, with either kind of emulator object
InitKeys ==
    /\ grid \in {g \in Grids : Ink(g) <= 1 /\ \A r \in 2..ScreenRows : g[r] = BlankGrid[r]}
    /\ cursor = <<1, 1>>
    /\ has_send_pf2 \in BOOLEAN
    /\ link = "up"
    /\ screen_rows = ScreenRows
    /\ factory = NewFactory
    /\ args = [field |-> <<"a">>, offset |-> 0, value |-> <<"a">>]
    /\ op = NoOp
    /\ result = NoResult
    /\ log = <<>>

NextKeys ==
    \/ SendKey
    \/ input_key

SpecKeys == InitKeys /\ [][NextKeys]_vars

\* typing a value character by character
TypedValues == Values \cup { <<>>, <<"a", "a">> }

InitTyping ==
    /\ grid \in Grids
    /\ cursor = <<1, 1>>
    /\ has_send_pf2 = TRUE
    /\ link = "up"
    /\ screen_rows = ScreenRows
    /\ factory = NewFactory
    /\ args \in [field : {<<"a">>}, offset : {0}, value : TypedValues]
    /\ op = NoOp
    /\ result = NoResult
    /\ log = <<>>

NextTyping ==
    \/ SendText
    \/ input_string

SpecTyping == InitTyping /\ [][NextTyping]_vars

\* the page operations on an emulator that may be terminated and under a
\* configuration that may be changed, on a few screens
InitSession ==
    /\ grid \in {g \in Grids : Ink(g) <= 1}
    /\ cursor = <<1, 1>>
    /\ has_send_pf2 = TRUE
    /\ link = "up"
    /\ screen_rows = ScreenRows
    /\ factory = NewFactory
    /\ args \in [field : {<<"a">>, <<"a", "a">>}, offset : Offsets, value : {<<"a">>, <<" ">>}]
    /\ op = NoOp
    /\ result = NoResult
    /\ log = <<>>

NextSession ==
    \/ FindTextPosition
    \/ input_text
    \/ get_value
    \/ get_screen
    \/ print_screen
    \/ Terminate
    \/ configure

SpecSession == InitSession /\ [][NextSession]_vars

\* keys and typed strings on an emulator that may be terminated
InitSessionKeys ==
    /\ grid = BlankGrid
    /\ cursor = <<1, 1>>
    /\ has_send_pf2 = TRUE
    /\ link = "up"
    /\ screen_rows = ScreenRows
    /\ factory = NewFactory
    /\ args \in [field : {<<"a">>}, offset : {0}, value : {<<>>, <<"a">>}]
    /\ op = NoOp
    /\ result = NoResult
    /\ log = <<>>

NextSessionKeys ==
    \/ input_key
    \/ input_string
    \/ Terminate

SpecSessionKeys == InitSessionKeys /\ [][NextSessionKeys]_vars

\* one factory through its life
InitFactory ==
    /\ grid = BlankGrid
    /\ cursor = <<1, 1>>
    /\ has_send_pf2 = TRUE
    /\ link = "up"
    /\ screen_rows = ScreenRows
    /\ factory = NewFactory
    /\ args = [field |-> <<"a">>, offset |-> 0, value |-> <<"a">>]
    /\ op = NoOp
    /\ result = NoResult
    /\ log = <<>>

NextFactory ==
    \/ create_emulator
    \/ terminate_emulator
    \/ get_emulator
    \/ is_connected
    \/ get_instance

SpecFactory == InitFactory /\ [][NextFactory]_vars

---------------------------------------------------------------------------
(* Properties.                                                             *)

\* the 0-based indices at which field occurs in line
Occurrences(line, field) == {i \in 0..Len(line) : MatchesAt(line, field, i)}

\* field occurs on the screen once only: in row r, at 0-based index i
OccursOnceAt(g, field, r, i) ==
    /\ Occurrences(g[r], field) = {i}
    /\ \A q \in (1..ScreenRows) \ {r} : Occurrences(g[q], field) = {}

RowsWith(g, field) == {r \in 1..ScreenRows : Occurrences(g[r], field) # {}}

Abs(n) == IF n < 0 THEN 0 - n ELSE n

FindDone == op.name = "find_text_position"

\* C1: when the label occurs in exactly one row r, exactly once, at 0-based
\* index i, find returns (r, i + len(label) + offset) for offset >= 0 and
\* (r, i - |offset| + 1) for offset < 0.
C1_FindPosition ==
    FindDone =>
        \A r \in 1..ScreenRows, i \in 0..ScreenCols :
            OccursOnceAt(grid, args.field, r, i) =>
                /\ result.val.found
                /\ result.val.row = r
                /\ result.val.col =
                      IF args.offset >= 0
                      THEN i + Len(args.field) + args.offset
                      ELSE i - Abs(args.offset) + 1

\* find has run with a negative offset for a label that occurs once, in the
\* last row, not at the start of the row
C1_Witness ==
    /\ FindDone
    /\ args.offset < 0
    /\ \E i \in 1..ScreenCols : OccursOnceAt(grid, args.field, ScreenRows, i)
    /\ result.val.found

\* C2 (as claimed): when a label of length n starts at 1-based column c of
\* row r and offset >= 0, find returns column c + n + offset.
C2_OneBasedColumn ==
    (FindDone /\ args.offset >= 0) =>
        \A r \in 1..ScreenRows, c \in 1..ScreenCols :
            OccursOnceAt(grid, args.field, r, c - 1) =>
                /\ result.val.found
                /\ result.val.row = r
                /\ result.val.col = c + Len(args.field) + args.offset

\* C3: find uses the lowest-numbered row that holds the label and the
\* leftmost occurrence in that row, and reads no row below it.
C3_FirstRowLeftmost ==
    (FindDone /\ RowsWith(grid, args.field) # {}) =>
        LET r == CHOOSE q \in RowsWith(grid, args.field) :
                    \A q2 \in RowsWith(grid, args.field) : q <= q2
            i == CHOOSE j \in Occurrences(grid[r], args.field) :
                    \A j2 \in Occurrences(grid[r], args.field) : j <= j2
        IN  /\ result.val.found
            /\ result.val.row = r
            /\ result.val.col =
                  IF args.offset >= 0
                  THEN i + Len(args.field) + args.offset
                  ELSE i - Abs(args.offset) + 1
            /\ \A k \in 1..Len(log) : log[k].row <= r

\* find has run on a screen that holds the label in the first row, more than
\* once, and in a later row too
C3_Witness ==
    /\ FindDone
    /\ args.field # <<>>
    /\ Cardinality(Occurrences(grid[1], args.field)) > 1
    /\ Cardinality(RowsWith(grid, args.field)) > 1
    /\ result.val.found
    /\ Len(log) = 1

\* C4: when the label is in no row, find returns None after reading each of
\* the rows 1..SCREEN_ROWS exactly once, in increasing order.
C4_NotFoundReadsAllRows ==
    (FindDone /\ RowsWith(grid, args.field) = {}) =>
        /\ ~result.val.found
        /\ Len(log) = ScreenRows
        /\ \A k \in 1..Len(log) :
              /\ log[k].call = "string_get"
              /\ log[k].row = k
              /\ log[k].col = 1
              /\ log[k].len = ScreenCols

\* find has run on a screen that does not hold the label, though it is not blank
C4_Witness ==
    /\ FindDone
    /\ RowsWith(grid, args.field) = {}
    /\ grid # BlankGrid
    /\ ~result.val.found

\* the column input_text moved the cursor to, when it wrote
WrittenCol == log[Len(log) - 1].col

\* C5 (as claimed): input_text(L, V, offset) with offset >= 0 and V fitting in
\* the row from the target column on, followed directly by
\* get_value(L, offset, len(V)), returns V stripped.
C5_RoundTrip ==
    [][ ( /\ op.name = "input_text"
          /\ result.kind = "return"
          /\ args.offset >= 0
          /\ WrittenCol + Len(args.value) - 1 <= ScreenCols
          /\ op'.name = "get_value"
          /\ op'.length = Len(args.value) )
        => ( /\ result'.kind = "return"
             /\ result'.val = Strip(args.value) ) ]_vars

KeyDone == op.name \in {"send_key", "input_key"}

\* the commands the emulator was sent, in order
Commands(l) == SelectSeq(l, LAMBDA e : e.cmd # "")

\* C6 to C9 are stated for an emulator object that has every method the
\* table names (has_send_pf2), the case most favourable to the code.

\* C6 (as claimed): every declared key has an entry, and building or looking
\* up the mapping issues no emulator call: the only command a dispatch causes
\* is the one issued by calling the entry of the requested key.
C6_PureMapping ==
    /\ Key \subseteq TableKeys
    /\ (KeyDone /\ op.key \in Key /\ has_send_pf2) =>
          \A k \in 1..Len(log) : log[k].cmd # "" => log[k].at = 348

\* C7 (as claimed): a declared key dispatched with wait=True makes exactly one
\* command, then one sleep, then one wait_for_field, and nothing else; with
\* wait=False there is neither sleep nor wait_for_field.
C7_CommandDelayReady ==
    (op.name = "send_key" /\ op.key \in Key /\ has_send_pf2) =>
        IF op.wait
        THEN /\ Len(log) = 3
             /\ log[1].cmd # ""
             /\ log[2].call = "sleep"
             /\ log[3].call = "wait_for_field"
        ELSE \A k \in 1..Len(log) : log[k].call \notin {"sleep", "wait_for_field"}

\* C8 (as claimed): dispatching a value outside Key raises and makes no
\* emulator call at all.
C8_UnsupportedKeyNoCalls ==
    (KeyDone /\ op.key \notin Key /\ has_send_pf2) =>
        /\ result.kind = "raise"
        /\ log = <<>>

\* the 3270 action a member of Key stands for
ActionOf(key) ==
    IF \E n \in 1..24 : key = "PF" \o ToString(n)
    THEN LET n == CHOOSE m \in 1..24 : key = "PF" \o ToString(m)
         IN  "PF(" \o ToString(n) \o ")"
    ELSE CASE key = "ENTER" -> "Enter"
           [] key = "TAB" -> "Tab"
           [] key = "CLEAR" -> "Clear"
           [] key = "RESET" -> "Reset"
           [] key = "BACKSPACE" -> "Backspace"
           [] key = "DELETE" -> "Delete"
           [] key = "NEWLINE" -> "Newline"
           [] OTHER -> key

\* C9 (as claimed): dispatching a declared key K succeeds and sends the
\* action of K itself and of no other key (PF3 sends PF(3), PF1 sends PF(1)).
C9_OneCommandPerKey ==
    (op.name = "send_key" /\ op.key \in Key /\ has_send_pf2) =>
        /\ result.kind = "return"
        /\ LET c == Commands(log)
           IN  Len(c) = 1 /\ c[1].cmd = ActionOf(op.key)

TypingDone == op.name \in {"send_text", "input_string"}

\* C10: typing a value sends its characters one at a time in order, each send
\* followed by one sleep, and waits for the field exactly once, after the sleep
\* of the last character.
C10_TypingOrder ==
    TypingDone =>
        LET n == Len(args.value)
        IN  /\ Len(log) = 2 * n + 1
            /\ \A i \in 1..n :
                  /\ log[2 * i - 1].call = "send_string"
                  /\ log[2 * i - 1].text = <<args.value[i]>>
                  /\ log[2 * i].call = "sleep"
            /\ log[2 * n + 1].call = "wait_for_field"
            /\ \A k \in 1..(2 * n) : log[k].call # "wait_for_field"

\* input_string has typed a value of two different characters
C10_Witness ==
    /\ op.name = "input_string"
    /\ Len(args.value) = 2
    /\ args.value[1] # args.value[2]
    /\ result.kind = "return"

\* the cursor moves and the writes an operation issued, in order
Moves(l) == SelectSeq(l, LAMBDA c : c.call = "move_to")
Writes(l) == SelectSeq(l, LAMBDA c : c.call = "send_string")
Reads(l) == SelectSeq(l, LAMBDA c : c.call = "string_get")

\* the first row that holds the label, top to bottom
FirstRowWith(g, field) == CHOOSE r \in RowsWith(g, field) : \A q \in RowsWith(g, field) : r <= q

\* C11 (as claimed): input_text(L, V, offset) on a screen where L is on no row
\* raises FieldNotFoundError with a snapshot and issues no cursor move and no
\* write; where L is found (and the computed position is on the screen) it
\* moves the cursor exactly once, to the computed position, then writes V
\* exactly once, then returns True.
C11_InputText ==
    [][ op'.name = "input_text" =>
          IF RowsWith(grid, args.field) = {}
          THEN /\ result'.kind = "raise"
               /\ result'.exc = "FieldNotFoundError"
               /\ result'.snap # <<>>
               /\ Moves(log') = <<>>
               /\ Writes(log') = <<>>
          ELSE LET r == FirstRowWith(grid, args.field)
                   c == Find(grid[r], args.field) + Len(args.field) + args.offset
               IN  ValidPos(r, c) =>
                     /\ Len(Moves(log')) = 1
                     /\ Moves(log')[1].row = r
                     /\ Moves(log')[1].col = c
                     /\ Len(Writes(log')) = 1
                     /\ Writes(log')[1].text = args.value
                     /\ log'[Len(log')].call = "send_string"
                     /\ log'[Len(log') - 1].call = "move_to"
                     /\ result' = Return(TRUE) ]_vars

\* C11, the part the code keeps: a lookup that fails issues row reads only,
\* and a lookup that succeeds with its target on the screen moves once, writes
\* once and returns True
C11_Effects ==
    [][ (op'.name = "input_text" /\ link = "up") =>
          IF RowsWith(grid, args.field) = {}
          THEN /\ result'.kind = "raise"
               /\ Moves(log') = <<>>
               /\ Writes(log') = <<>>
               /\ grid' = grid /\ cursor' = cursor
          ELSE LET r == FirstRowWith(grid, args.field)
                   c == Find(grid[r], args.field) + Len(args.field) + args.offset
               IN  ValidPos(r, c) =>
                     /\ Len(Moves(log')) = 1
                     /\ Moves(log')[1].row = r
                     /\ Moves(log')[1].col = c
                     /\ Len(Writes(log')) = 1
                     /\ Writes(log')[1].text = args.value
                     /\ log'[Len(log')].call = "send_string"
                     /\ log'[Len(log') - 1].call = "move_to"
                     /\ result' = Return(TRUE) ]_vars

\* an operation that looks a label up has failed on a screen without the label
LookupFailed ==
    /\ op.name \in {"input_text", "get_value"}
    /\ result.kind = "raise"
    /\ RowsWith(grid, args.field) = {}

PageOps == {"input_text", "input_key", "input_string", "get_value", "get_screen", "print_screen"}
Taxonomy == {"FieldNotFoundError", "InputError", "KeyError", "ScreenError"}

\* a page operation has failed on a terminated emulator: every read of the
\* screen it attempted, the one for the snapshot included, has failed
CaptureFailed ==
    /\ op.name \in PageOps
    /\ link = "down"
    /\ result.kind = "raise"
    /\ log # <<>>

\* C13 (as claimed): when the read of the screen for the snapshot fails, the
\* failure the caller gets is still the one made for an error of the taxonomy,
\* with the placeholder in the place of the snapshot; the failure of the read
\* itself is never what the caller gets.  (Read in the way most favourable to
\* the code: pytest's Failed raised by the constructor of the error counts as
\* that error.)
C13_CaptureFailureMasked ==
    CaptureFailed =>
        /\ result.err \in Taxonomy
        /\ result.snap = Placeholder
        /\ result.exc # "TerminatedError"

\* C14 (as claimed): whatever fails inside a page operation, the exception the
\* caller receives is an error of the taxonomy (and the operation does not
\* return).
C14_TaxonomyOnly ==
    (op.name \in PageOps /\ result.kind = "raise") => result.exc \in Taxonomy

\* C14, the part the code keeps: a page operation that made an error of the
\* taxonomy does not return, because the constructor of the error raises
C14_NoReturnAfterError ==
    (op.name \in PageOps /\ result.err # "") => result.kind = "raise"

\* input_text has failed after it attempted the cursor move: the emulator
\* raised in move_to
MoveRejected ==
    /\ op.name = "input_text"
    /\ result.kind = "raise"
    /\ Moves(log) # <<>>

\* C15 (as claimed): when the emulator raises during the cursor move of
\* input_text, the caller receives an InputError whose message holds the
\* message of the emulator's exception.
C15_DeviceErrorWrapped ==
    MoveRejected =>
        /\ result.exc = "InputError"
        /\ result.cause = "CommandError"

\* C15, the part the code keeps: the error made is the one of InputError, with
\* str() of the emulator's exception in its message and the screen as snapshot
C15_WrappedInFailed ==
    MoveRejected =>
        /\ result.exc = "Failed"
        /\ result.err = "InputError"
        /\ result.cause = "CommandError"
        /\ result.snap = Join(grid)

\* the characters of row r of g from column c on, n of them
Region(g, r, c, n) == [k \in 1..n |-> g[r][c + k - 1]]

\* every read an operation issued was the read of a whole row
OnlyRowReads(l) ==
    \A k \in 1..Len(l) :
        l[k].call = "string_get" /\ l[k].col = 1 /\ l[k].len = ScreenCols

\* C16 (as claimed): get_value(L, offset, length) returns the length characters
\* read at the position find computes for (L, offset), stripped, when L is
\* found (and the region is on the screen); when L is on no row it raises
\* FieldNotFoundError and reads no region.
C16_GetValue ==
    op.name = "get_value" =>
        IF RowsWith(grid, args.field) = {}
        THEN /\ result.kind = "raise"
             /\ result.exc = "FieldNotFoundError"
             /\ OnlyRowReads(log)
        ELSE LET r == FirstRowWith(grid, args.field)
                 c == find_col(Find(grid[r], args.field), args.field, args.offset)
             IN  string_get_ok(r, c, op.length) =>
                   /\ result = Return(Strip(Region(grid, r, c, op.length)))
                   /\ log[Len(log)].call = "string_get"
                   /\ log[Len(log)].row = r
                   /\ log[Len(log)].col = c
                   /\ log[Len(log)].len = op.length

\* C16, the part the code keeps: the value returned when L is found, and row
\* reads only when it is not
C16_ValueAndReads ==
    op.name = "get_value" =>
        IF RowsWith(grid, args.field) = {}
        THEN /\ result.kind = "raise"
             /\ result.err = "FieldNotFoundError"
             /\ OnlyRowReads(log)
        ELSE LET r == FirstRowWith(grid, args.field)
                 c == find_col(Find(grid[r], args.field), args.field, args.offset)
             IN  string_get_ok(r, c, op.length) =>
                   /\ result = Return(Strip(Region(grid, r, c, op.length)))
                   /\ log[Len(log)].call = "string_get"
                   /\ log[Len(log)].row = r
                   /\ log[Len(log)].col = c
                   /\ log[Len(log)].len = op.length

\* a page operation has failed and one of the reads it issued was refused by
\* the emulator
ReadRefused ==
    /\ op.name \in PageOps
    /\ result.kind = "raise"
    /\ \E k \in 1..Len(log) :
          /\ log[k].call = "string_get"
          /\ ~string_get_ok(log[k].row, log[k].col, log[k].len)

\* C17 (as claimed): when a read of a row or of a region fails, the error made
\* is the one of ScreenError, in get_value and input_text too, and the read is
\* issued once.  (Read in the way most favourable to the code: pytest's Failed
\* raised by the constructor of ScreenError counts as ScreenError.)
C17_ReadErrorIsScreenError ==
    ReadRefused =>
        /\ result.err = "ScreenError"
        /\ Len(SelectSeq(log, LAMBDA c : c.call = "string_get"
                                  /\ ~string_get_ok(c.row, c.col, c.len))) = 1

\* get_screen has returned the rows of the screen: as many strings as rows are
\* configured, the i-th the content of row i over all columns, each row read
\* once, top to bottom
ReturnedRows ==
    /\ result.kind = "return"
    /\ Len(result.val) = screen_rows
    /\ \A r \in 1..screen_rows :
          /\ Len(result.val[r]) = ScreenCols
          /\ \A c \in 1..ScreenCols : result.val[r][c] = grid[r][c]
    /\ Len(log) = screen_rows
    /\ \A r \in 1..screen_rows :
          /\ log[r].call = "string_get"
          /\ log[r].row = r /\ log[r].col = 1 /\ log[r].len = ScreenCols

\* C18 (as claimed): get_screen returns the rows of the screen in order;
\* get_screen and print_screen raise ScreenError when the read yields no row.
C18_GetScreen ==
    (op.name \in {"get_screen", "print_screen"} /\ link = "up") =>
        IF screen_rows = 0
        THEN result.kind = "raise" /\ result.exc = "ScreenError"
        ELSE op.name = "get_screen" => ReturnedRows

\* C18, the part the code keeps: the rows returned, and for an empty read the
\* error of ScreenError made without a snapshot
C18_RowsInOrder ==
    (op.name \in {"get_screen", "print_screen"} /\ link = "up") =>
        IF screen_rows = 0
        THEN /\ result.kind = "raise"
             /\ result.err = "ScreenError"
             /\ result.snap = <<>>
        ELSE op.name = "get_screen" => ReturnedRows

C20_SessionNotReady ==
    (op.name \in PageOps /\ link = "down") =>
        /\ result.kind = "raise"
        /\ result.exc = "SessionNotReadyError"
        /\ log = <<>>

\* what the code does on a terminated emulator with rows configured: the first
\* call of the helper is attempted on the emulator object, and for the
\* operations that write or look a label up the exception of the emulator
\* reaches the caller as it is
C20_CallAttempted ==
    (op.name \in PageOps /\ link = "down" /\ screen_rows > 0) =>
        /\ log # <<>>
        /\ result.kind = "raise"
        /\ op.name \in {"input_text", "get_value", "input_string"} =>
              result.exc = "TerminatedError"

\* the factory holds an emulator: its last create_emulator succeeded and
\* terminate_emulator was not called since
Holds(f) == f.emulador # Unset /\ f.emulador # None

\* C21 (as claimed): is_connected() returns True when the factory holds an
\* emulator and False when it does not (fresh, or after terminate_emulator);
\* get_emulator() returns the connected emulator in the first case and ends in
\* the error of EmulatorError in the second.  (Read in the way most favourable
\* to the code: pytest's Failed raised by the constructor of EmulatorError
\* counts as EmulatorError.)
C21_ConnectionState ==
    /\ op.name = "is_connected" =>
          (result.kind = "return" /\ result.val = Holds(factory))
    /\ op.name = "get_emulator" =>
          IF Holds(factory)
          THEN /\ result.kind = "return"
               /\ result.val = factory.emulador
               /\ factory.emus[factory.emulador] = "connected"
          ELSE result.kind = "raise" /\ result.err = "EmulatorError"

\* C21, the part the code keeps: the same, on a factory whose create_emulator
\* was called at least once
C21_AfterCreate ==
    factory.emulador # Unset => C21_ConnectionState

\* C22 (as claimed): terminate_emulator on a factory that holds no emulator
\* (never created, creation failed, already terminated) returns without an
\* error, calls no emulator and leaves the factory and _instance as they were.
C22_TerminateIgnored ==
    [][ (op'.name = "terminate_emulator" /\ ~Holds(factory)) =>
          /\ result'.kind = "return"
          /\ log' = <<>>
          /\ factory' = factory ]_vars

\* C22, the part the code keeps: the same after a failed creation or an
\* earlier terminate_emulator
C22_IgnoredAfterCreate ==
    [][ (op'.name = "terminate_emulator" /\ factory.emulador = None) =>
          /\ result'.kind = "return"
          /\ log' = <<>>
          /\ factory' = factory ]_vars

\* the positions an operation has produced: the one find returned, the ones
\* input_text passed to move_to
Positions ==
    (IF FindDone /\ result.kind = "return" /\ result.val.found
     THEN {<<result.val.row, result.val.col>>} ELSE {})
    \cup
    (IF op.name = "input_text"
     THEN {<<Moves(log)[k].row, Moves(log)[k].col>> : k \in 1..Len(Moves(log))}
     ELSE {})

\* C23 (as claimed): every position find returns and every position input_text
\* moves the cursor to has 1 <= row <= rows and 1 <= col <= cols + 1.
C23_PositionInRange ==
    \A p \in Positions :
        /\ 1 <= p[1] /\ p[1] <= ScreenRows
        /\ 1 <= p[2] /\ p[2] <= ScreenCols + 1

\* C23, the part the code keeps: the row is a row of the screen, and the
\* column is off the claimed range by no more than the offset and the label
C23_RowInRange ==
    \A p \in Positions :
        /\ 1 <= p[1] /\ p[1] <= ScreenRows
        /\ 0 - Abs(args.offset) <= p[2]
        /\ p[2] <= ScreenCols + Abs(args.offset)

\* C24 (as claimed): the position input_text moves the cursor to is the
\* position find returns for the same screen, label and offset, negative
\* offsets included.
C24_SameRuleAsFind ==
    [][ (op'.name = "input_text" /\ Moves(log') # <<>>) =>
          LET p == find_text_position(grid, args.field, args.offset)
          IN  /\ p.found
              /\ Moves(log')[1].row = p.row
              /\ Moves(log')[1].col = p.col ]_vars

\* C24, the part the code keeps: the two positions agree for offset >= 0 and
\* for labels of one character, and always in the row
C24_SameForUnsigned ==
    [][ (op'.name = "input_text" /\ Moves(log') # <<>>) =>
          LET p == find_text_position(grid, args.field, args.offset)
          IN  /\ p.found
              /\ Moves(log')[1].row = p.row
              /\ (args.offset >= 0 \/ Len(args.field) = 1) =>
                    Moves(log')[1].col = p.col ]_vars

\* C25 (as claimed): _instance is the emulator the factory holds, None when it
\* holds none, and every emulator that was connected and not terminated is
\* the one the factory holds.
C25_InstanceIsCurrent ==
    /\ factory.instance = (IF Holds(factory) THEN factory.emulador ELSE None)
    /\ \A k \in 1..Len(factory.emus) :
          factory.emus[k] = "connected" => factory.emulador = k

\* C25, the part the code keeps: an emulator the factory holds is _instance
\* and is connected, and _instance is never a terminated emulator
C25_HeldIsInstance ==
    /\ Holds(factory) =>
          /\ factory.instance = factory.emulador
          /\ factory.emus[factory.emulador] = "connected"
    /\ factory.instance # None => factory.emus[factory.instance] = "connected"

ReadOps == {"find_text_position", "get_value", "get_screen", "print_screen"}

\* C26: find_text_position, get_value, get_screen and print_screen, whether
\* they return or fail, with the reads for the snapshot included, call nothing
\* but string_get on the emulator and leave its screen and cursor as they were.
C26_ReadOpsOnlyRead ==
    [][ op'.name \in ReadOps =>
          /\ \A k \in 1..Len(log') : log'[k].call = "string_get"
          /\ grid' = grid
          /\ cursor' = cursor ]_vars

\* get_value has failed and read the screen for the snapshot, after an
\* input_text had written and moved the cursor
C26_Witness ==
    /\ op.name = "get_value"
    /\ result.kind = "raise"
    /\ result.snap # <<>>
    /\ Len(log) > screen_rows
    /\ cursor # <<1, 1>>
    /\ grid # BlankGrid

============================================================================
